---- MODULE Spec2Model ----
(***************************************************************************)
(* Model of the key-point annotation tool's backend.                       *)
(*                                                                         *)
(*  - the workflow tables of images/models.py, annotations/models.py and   *)
(*    verifications/models.py (ImageBatch, Image, Annotation,              *)
(*    Verification) with the methods they declare and the admin change     *)
(*    form of images/admin.py;                                             *)
(*  - the legacy upload pipeline of images/views.py and images/tasks.py    *)
(*    (UploadBatch, ImageUpload);                                          *)
(*  - BatchAssignment.update_progress of annotations/models.py;            *)
(*  - registration, login and the administrator's views of                 *)
(*    user_auth/views.py (CustomUser).                                     *)
(*                                                                         *)
(* Database rows are the shared state.  A handler that issues several      *)
(* SQL statements is a process with a position: statements of different    *)
(* requests interleave, since no handler opens a transaction or takes a    *)
(* row lock.                                                               *)
(***************************************************************************)
EXTENDS Integers, Sequences, FiniteSets, TLC

\* ------------------------------------------------------------------ bounds
MaxImages == 2
MaxStoreImages == 1
MaxAnnotations == 2
MaxVerifications == 3
MaxVersion == 2
MaxTotalFiles == 2
MaxUploads == 2
MaxFailedFiles == 4
MaxProcessedFiles == 2
MaxTotalImages == 2
MaxUsers == 2
MaxTokens == 3
MaxListedUsers == 4
MaxPage == 3
MaxPerPage == 3

ImageIds == 1..MaxImages
StoreImageIds == 1..MaxStoreImages
UploadIds == 1..MaxUploads
Verifiers == {"verifier_a", "verifier_b"}
UserIds == 1..MaxUsers

\* --------------------------------------------------------------- constants
NoImage == "NONE"

IMAGE_STATUS ==
    {"UPLOADED", "YOLO_PROCESSED", "ASSIGNED", "IN_PROGRESS", "ANNOTATED",
     "SUBMITTED", "UNDER_REVIEW", "APPROVED", "REJECTED", "REQUIRES_REVISION"}

ANNOTATION_STATUS ==
    {"DRAFT", "COMPLETED", "SUBMITTED", "UNDER_REVIEW", "APPROVED",
     "REVISION_REQUESTED"}

VERIFICATION_DECISIONS ==
    {"APPROVED", "APPROVED_WITH_CORRECTIONS", "MINOR_REVISION_NEEDED",
     "MAJOR_REVISION_NEEDED", "REJECTED"}

\* process_image_with_yolo: @shared_task(bind=True, max_retries=3)
max_retries == 3

VARIABLES
    imgStatus,        \* Image.status per image id, NoImage before the row exists
    assigned_count,   \* ImageBatch.assigned_count  (stored)
    completed_count,  \* ImageBatch.completed_count (stored)
    approved_count,   \* ImageBatch.approved_count  (stored)
    rejected_count,   \* ImageBatch.rejected_count  (stored)
    upPc,             \* position of a running ImageBatch.update_progress()
    upSelf,           \* the in-memory ImageBatch instance update_progress fills
    annotations,      \* rows of table annotations, in insertion order
    verifications,    \* rows of table verifications, in insertion order
    verifyResult,     \* outcome of the latest Verification.objects.create call
    use_async,        \* settings.PROCESS_IMAGES_ASYNC
    batch,            \* the UploadBatch row
    upload_status,    \* ImageUpload.status per image id, "none" before the row exists
    taskState,        \* per image: its process_image_with_yolo task (none, queued,
                      \* running, completing)
    taskRetries,      \* per image: self.request.retries of that task
    taskBatch,        \* per image: the UploadBatch instance the running task loaded
    total_images,     \* ImageBatch.total_images
    images_total,     \* BatchAssignment.images_total
    images_completed, \* BatchAssignment.images_completed (stored)
    users,            \* CustomUser rows by username: registered, is_approved, role,
                      \* email, password, password_reset_token
    tokens,           \* the users holding a valid JWT
    loginResult,      \* response of the latest login_user call
    response,         \* response of the latest call of another user_auth view
    next_token        \* number of password reset tokens generated so far

imageVars == <<imgStatus, assigned_count, completed_count, approved_count,
               rejected_count, upPc, upSelf>>
storeVars == <<annotations, verifications, verifyResult>>
uploadVars == <<use_async, batch, upload_status, taskState, taskRetries, taskBatch>>
totalVars == <<total_images, images_total, images_completed>>
authVars == <<users, tokens, loginResult, response, next_token>>
vars == <<imgStatus, assigned_count, completed_count, approved_count,
          rejected_count, upPc, upSelf, annotations, verifications, verifyResult,
          use_async, batch, upload_status, taskState, taskRetries, taskBatch,
          total_images, images_total, images_completed, users, tokens, loginResult,
          response, next_token>>

\* ------------------------------------------------------- images and batches

\* update_progress holds no instance while it is not running
NoInstance == [assigned_count |-> 0, completed_count |-> 0,
               approved_count |-> 0, rejected_count |-> 0]

\* images.filter(status__in=S).count() over the batch's image rows
CountStatus(S) == Cardinality({i \in ImageIds : imgStatus[i] \in S})

\* Image.can_be_assigned
can_be_assigned(status) == status \in {"YOLO_PROCESSED", "REQUIRES_REVISION"}

\* A new Image row: status takes the field's default.
CreateImage(i) ==
    /\ imgStatus[i] = NoImage
    /\ imgStatus' = [imgStatus EXCEPT ![i] = "UPLOADED"]
    /\ UNCHANGED <<assigned_count, completed_count, approved_count,
                   rejected_count, upPc, upSelf>>
    /\ UNCHANGED storeVars
    /\ UNCHANGED uploadVars
    /\ UNCHANGED <<totalVars, authVars>>

\* ImageAdmin's change form: 'status' is an editable field with the model's
\* choices; the form saves whichever choice is posted.
AdminChangeImage(i, s) ==
    /\ imgStatus[i] # NoImage
    /\ s \in IMAGE_STATUS
    /\ imgStatus' = [imgStatus EXCEPT ![i] = s]
    /\ UNCHANGED <<assigned_count, completed_count, approved_count,
                   rejected_count, upPc, upSelf>>
    /\ UNCHANGED storeVars
    /\ UNCHANGED uploadVars
    /\ UNCHANGED <<totalVars, authVars>>

\* ImageBatch.update_progress: four COUNT queries, one after the other, each
\* reading the image rows as they are when it runs, then one UPDATE of the
\* four counters.
UpdateProgressAssigned ==
    /\ upPc = "idle"
    /\ upSelf' = [upSelf EXCEPT !.assigned_count =
                    CountStatus({"ASSIGNED", "IN_PROGRESS", "ANNOTATED", "SUBMITTED"})]
    /\ upPc' = "completed"
    /\ UNCHANGED <<imgStatus, assigned_count, completed_count, approved_count,
                   rejected_count>>
    /\ UNCHANGED storeVars
    /\ UNCHANGED uploadVars
    /\ UNCHANGED <<totalVars, authVars>>

UpdateProgressCompleted ==
    /\ upPc = "completed"
    /\ upSelf' = [upSelf EXCEPT !.completed_count =
                    CountStatus({"APPROVED", "REJECTED"})]
    /\ upPc' = "approved"
    /\ UNCHANGED <<imgStatus, assigned_count, completed_count, approved_count,
                   rejected_count>>
    /\ UNCHANGED storeVars
    /\ UNCHANGED uploadVars
    /\ UNCHANGED <<totalVars, authVars>>

UpdateProgressApproved ==
    /\ upPc = "approved"
    /\ upSelf' = [upSelf EXCEPT !.approved_count = CountStatus({"APPROVED"})]
    /\ upPc' = "rejected"
    /\ UNCHANGED <<imgStatus, assigned_count, completed_count, approved_count,
                   rejected_count>>
    /\ UNCHANGED storeVars
    /\ UNCHANGED uploadVars
    /\ UNCHANGED <<totalVars, authVars>>

UpdateProgressRejected ==
    /\ upPc = "rejected"
    /\ upSelf' = [upSelf EXCEPT !.rejected_count = CountStatus({"REJECTED"})]
    /\ upPc' = "save"
    /\ UNCHANGED <<imgStatus, assigned_count, completed_count, approved_count,
                   rejected_count>>
    /\ UNCHANGED storeVars
    /\ UNCHANGED uploadVars
    /\ UNCHANGED <<totalVars, authVars>>

\* A save that adds what was counted to what the row holds.
UpdateProgressSave_Accumulate ==
    /\ upPc = "save"
    /\ assigned_count' = assigned_count + upSelf.assigned_count
    /\ completed_count' = completed_count + upSelf.completed_count
    /\ approved_count' = approved_count + upSelf.approved_count
    /\ rejected_count' = rejected_count + upSelf.rejected_count
    /\ upPc' = "idle"
    /\ upSelf' = NoInstance
    /\ UNCHANGED imgStatus
    /\ UNCHANGED storeVars
    /\ UNCHANGED uploadVars
    /\ UNCHANGED <<totalVars, authVars>>

UpdateProgressSave ==
    /\ upPc = "save"
    /\ assigned_count' = upSelf.assigned_count
    /\ completed_count' = upSelf.completed_count
    /\ approved_count' = upSelf.approved_count
    /\ rejected_count' = upSelf.rejected_count
    /\ upPc' = "idle"
    /\ upSelf' = NoInstance
    /\ UNCHANGED imgStatus
    /\ UNCHANGED storeVars
    /\ UNCHANGED uploadVars
    /\ UNCHANGED <<totalVars, authVars>>


\* ------------------------------------------- annotations and verifications

\* Verification.is_approved / needs_revision / is_rejected
is_approved(decision) == decision \in {"APPROVED", "APPROVED_WITH_CORRECTIONS"}
needs_revision(decision) ==
    decision \in {"MINOR_REVISION_NEEDED", "MAJOR_REVISION_NEEDED"}
is_rejected(decision) == decision = "REJECTED"

\* Image.get_annotation: annotations.filter(status='SUBMITTED').first();
\* Annotation's Meta.ordering is -created_at, so first() is the newest row.
\* 0 stands for None.
SubmittedAnnotations(i) ==
    {a \in DOMAIN annotations :
        annotations[a].image = i /\ annotations[a].status = "SUBMITTED"}

get_annotation(i) ==
    IF SubmittedAnnotations(i) = {} THEN 0
    ELSE CHOOSE a \in SubmittedAnnotations(i) :
            \A b \in SubmittedAnnotations(i) : b <= a

\* Annotation.objects.create(...): image is a plain ForeignKey (many
\* annotations per image), original_annotation a nullable ForeignKey to any
\* annotation row (0 is NULL), version and is_revision plain columns with
\* defaults 1 and False, status any of the choices with default DRAFT.
CreateAnnotation(i, st, ver, rev, orig) ==
    /\ Len(annotations) < MaxAnnotations
    /\ imgStatus[i] # NoImage
    /\ st \in ANNOTATION_STATUS
    /\ orig = 0 \/ orig \in DOMAIN annotations
    /\ annotations' = Append(annotations,
           [image |-> i, status |-> st, version |-> ver,
            is_revision |-> rev, original_annotation |-> orig])
    /\ UNCHANGED <<verifications, verifyResult>>
    /\ UNCHANGED imageVars
    /\ UNCHANGED uploadVars
    /\ UNCHANGED <<totalVars, authVars>>

\* annotation.status = st; annotation.save()
SaveAnnotationStatus(a, st) ==
    /\ a \in DOMAIN annotations
    /\ st \in ANNOTATION_STATUS
    /\ annotations[a].status # st
    /\ annotations' = [annotations EXCEPT ![a].status = st]
    /\ UNCHANGED <<verifications, verifyResult>>
    /\ UNCHANGED imageVars
    /\ UNCHANGED uploadVars
    /\ UNCHANGED <<totalVars, authVars>>

\* Verification.annotation is a OneToOneField: the column is UNIQUE.
VerificationUniqueOk_NotUnique(a) == TRUE

VerificationUniqueOk(a) ==
    \A k \in DOMAIN verifications : verifications[k].annotation # a

\* Verification.objects.create(annotation=a, verifier=v, decision=d,
\* can_be_reannotated=c): the INSERT fails with the database's integrity
\* error when a row for the annotation exists.  The model has no save()
\* override and no signal handler: the INSERT writes the verification row
\* and nothing else.
CreateVerification(a, v, d, c) ==
    /\ a \in DOMAIN annotations
    /\ Len(verifications) < MaxVerifications
    /\ IF VerificationUniqueOk(a)
       THEN /\ verifications' = Append(verifications,
                   [annotation |-> a, verifier |-> v, decision |-> d,
                    can_be_reannotated |-> c])
            /\ verifyResult' = [annotation |-> a, verifier |-> v,
                                result |-> "ok"]
       ELSE /\ verifications' = verifications
            /\ verifyResult' = [annotation |-> a, verifier |-> v,
                                result |-> "IntegrityError"]
    /\ UNCHANGED annotations
    /\ UNCHANGED imageVars
    /\ UNCHANGED uploadVars
    /\ UNCHANGED <<totalVars, authVars>>

\* ------------------------------------------------- legacy upload pipeline
\* One UploadBatch, made by create_upload_batch with total_files > 0, status
\* 'pending' and the counters at their defaults.  Every save() of an
\* UploadBatch or ImageUpload instance writes the whole row from the
\* instance, whatever the row holds by then.

\* No UploadBatch instance held.
NoBatch == [total_files |-> 0, uploaded_files |-> 0, processed_files |-> 0,
            failed_files |-> 0, status |-> "none"]

Max0(n) == IF n < 0 THEN 0 ELSE n

\* upload_image: creates the ImageUpload row, then uploaded_files += 1 and
\* pending -> uploading.  No check against total_files or the batch status.
upload_image(i) ==
    /\ upload_status[i] = "none"
    /\ upload_status' = [upload_status EXCEPT ![i] = "uploaded"]
    /\ batch' = [batch EXCEPT
                    !.uploaded_files = batch.uploaded_files + 1,
                    !.status = IF batch.status = "pending" THEN "uploading"
                               ELSE batch.status]
    /\ UNCHANGED <<use_async, taskState, taskRetries, taskBatch>>
    /\ UNCHANGED imageVars
    /\ UNCHANGED storeVars
    /\ UNCHANGED <<totalVars, authVars>>

\* cancel_batch: refused for a completed batch; else the batch becomes
\* cancelled and its uploaded and processing images become cancelled.
cancel_batch ==
    /\ batch.status # "completed"
    /\ batch' = [batch EXCEPT !.status = "cancelled"]
    /\ upload_status' = [i \in UploadIds |->
            IF upload_status[i] \in {"uploaded", "processing"} THEN "cancelled"
            ELSE upload_status[i]]
    /\ UNCHANGED <<use_async, taskState, taskRetries, taskBatch>>
    /\ UNCHANGED imageVars
    /\ UNCHANGED storeVars
    /\ UNCHANGED <<totalVars, authVars>>

\* The success path of process_image_with_yolo(_sync) on the batch instance b
\* it holds: processed_files += 1, then the completion test.
BatchAfterSuccess(b) ==
    LET b1 == [b EXCEPT !.processed_files = b.processed_files + 1]
    IN IF b1.processed_files + b1.failed_files = b1.total_files
       THEN [b1 EXCEPT !.status = "completed"]
       ELSE b1

\* The failure path: failed_files += 1 on a freshly loaded batch.
BatchAfterFailure(b) == [b EXCEPT !.failed_files = b.failed_files + 1]

\* process_image_with_yolo_sync(image i) run to its end on batch row `row`
\* and image statuses `st`; ok says whether detection succeeded.  It loads
\* its own instance of the batch and saves it.
SyncProcess(row, st, i, ok) ==
    IF ok
    THEN [row |-> BatchAfterSuccess(row), st |-> [st EXCEPT ![i] = "completed"]]
    ELSE [row |-> BatchAfterFailure(row), st |-> [st EXCEPT ![i] = "failed"]]

\* A loop that gives up at the first image whose processing failed.
RECURSIVE SyncAll_AbortOnFailure(_, _, _, _)
SyncAll_AbortOnFailure(row, st, S, oks) ==
    IF S = {} THEN [row |-> row, st |-> st]
    ELSE LET i == CHOOSE x \in S : \A y \in S : y <= x
             r == SyncProcess(row, st, i, oks[i])
         IN IF oks[i] THEN SyncAll_AbortOnFailure(r.row, r.st, S \ {i}, oks)
            ELSE r

\* The loop of a view over the images S, newest first, calling
\* process_image_with_yolo_sync on each.
RECURSIVE SyncAll(_, _, _, _)
SyncAll(row, st, S, oks) ==
    IF S = {} THEN [row |-> row, st |-> st]
    ELSE LET i == CHOOSE x \in S : \A y \in S : y <= x
             r == SyncProcess(row, st, i, oks[i])
         IN SyncAll(r.row, r.st, S \ {i}, oks)

Processable == {i \in UploadIds : upload_status[i] \in {"uploaded", "failed"}}
FailedImages == {i \in UploadIds : upload_status[i] = "failed"}

\* No task of these images is queued or running (one task per image).
NoTaskFor(S) == \A i \in S : taskState[i] = "none"

\* process_single_image, synchronous: a failed image first gives back one
\* failed_files; then process_image_with_yolo_sync runs.
process_single_image_sync(i, ok) ==
    /\ ~use_async
    /\ upload_status[i] \in {"uploaded", "failed"}
    /\ LET row1 == IF upload_status[i] = "failed"
                   THEN [batch EXCEPT !.failed_files = Max0(batch.failed_files - 1)]
                   ELSE batch
           r == SyncProcess(row1, upload_status, i, ok)
       IN /\ batch' = r.row
          /\ upload_status' = r.st
    /\ UNCHANGED <<use_async, taskState, taskRetries, taskBatch>>
    /\ UNCHANGED imageVars
    /\ UNCHANGED storeVars
    /\ UNCHANGED <<totalVars, authVars>>

\* process_single_image, asynchronous: the image is reset to uploaded and a
\* task is queued.
process_single_image_async(i) ==
    /\ use_async
    /\ upload_status[i] \in {"uploaded", "failed"}
    /\ NoTaskFor({i})
    /\ batch' = IF upload_status[i] = "failed"
                THEN [batch EXCEPT !.failed_files = Max0(batch.failed_files - 1)]
                ELSE batch
    /\ upload_status' = [upload_status EXCEPT ![i] = "uploaded"]
    /\ taskState' = [taskState EXCEPT ![i] = "queued"]
    /\ taskRetries' = [taskRetries EXCEPT ![i] = 0]
    /\ UNCHANGED <<use_async, taskBatch>>
    /\ UNCHANGED imageVars
    /\ UNCHANGED storeVars
    /\ UNCHANGED <<totalVars, authVars>>

\* The view's own batch instance in process_batch_with_yolo after its loop:
\* loaded at the start, status set to processing, failed_files lowered (not
\* below 0) once per failed image, nothing of what the calls did to the row.
ViewBatchAfterLoop ==
    [batch EXCEPT !.status = "processing",
                  !.failed_files = Max0(batch.failed_files - Cardinality(FailedImages))]

\* process_batch_with_yolo, synchronous.  The per-image calls update the row
\* through their own instances; then the view saves its instance over the
\* row and marks it completed if its own counters reach uploaded_files.
process_batch_with_yolo_sync(oks) ==
    /\ ~use_async
    /\ batch.status \in {"uploading", "completed", "failed"}
    /\ Processable # {}
    /\ LET r == SyncAll([batch EXCEPT !.status = "processing"], upload_status,
                        Processable, oks)
           b == ViewBatchAfterLoop
       IN /\ upload_status' = r.st
          /\ batch' = IF b.processed_files + b.failed_files >= b.uploaded_files
                      THEN [b EXCEPT !.status = "completed"]
                      ELSE b
    /\ UNCHANGED <<use_async, taskState, taskRetries, taskBatch>>
    /\ UNCHANGED imageVars
    /\ UNCHANGED storeVars
    /\ UNCHANGED <<totalVars, authVars>>

\* process_batch_with_yolo, asynchronous: every processable image is reset
\* and queued; the view saves its instance.
process_batch_with_yolo_async ==
    /\ use_async
    /\ batch.status \in {"uploading", "completed", "failed"}
    /\ Processable # {}
    /\ NoTaskFor(Processable)
    /\ batch' = ViewBatchAfterLoop
    /\ upload_status' = [i \in UploadIds |->
            IF i \in Processable THEN "uploaded" ELSE upload_status[i]]
    /\ taskState' = [i \in UploadIds |->
            IF i \in Processable THEN "queued" ELSE taskState[i]]
    /\ taskRetries' = [i \in UploadIds |->
            IF i \in Processable THEN 0 ELSE taskRetries[i]]
    /\ UNCHANGED <<use_async, taskBatch>>
    /\ UNCHANGED imageVars
    /\ UNCHANGED storeVars
    /\ UNCHANGED <<totalVars, authVars>>

\* retry_failed_images, synchronous: each failed image is reset and
\* processed; then the view's instance, loaded at the start, gets
\* failed_files -= retry_count and is saved over the row.
retry_failed_images_sync(oks) ==
    /\ ~use_async
    /\ FailedImages # {}
    /\ LET r == SyncAll(batch, upload_status, FailedImages, oks)
           retry_count == Cardinality({i \in FailedImages : oks[i]})
       IN /\ upload_status' = r.st
          /\ batch' = [batch EXCEPT !.failed_files = batch.failed_files - retry_count]
    /\ UNCHANGED <<use_async, taskState, taskRetries, taskBatch>>
    /\ UNCHANGED imageVars
    /\ UNCHANGED storeVars
    /\ UNCHANGED <<totalVars, authVars>>

\* retry_failed_images, asynchronous: every failed image is reset, queued
\* and counted in retry_count.
retry_failed_images_async ==
    /\ use_async
    /\ FailedImages # {}
    /\ NoTaskFor(FailedImages)
    /\ batch' = [batch EXCEPT
                    !.failed_files = batch.failed_files - Cardinality(FailedImages)]
    /\ upload_status' = [i \in UploadIds |->
            IF i \in FailedImages THEN "uploaded" ELSE upload_status[i]]
    /\ taskState' = [i \in UploadIds |->
            IF i \in FailedImages THEN "queued" ELSE taskState[i]]
    /\ taskRetries' = [i \in UploadIds |->
            IF i \in FailedImages THEN 0 ELSE taskRetries[i]]
    /\ UNCHANGED <<use_async, taskBatch>>
    /\ UNCHANGED imageVars
    /\ UNCHANGED storeVars
    /\ UNCHANGED <<totalVars, authVars>>

\* process_image_with_yolo, first part: the worker loads the image and its
\* batch, and saves the image as processing whatever its status was.
TaskStart(i) ==
    /\ taskState[i] = "queued"
    /\ taskState' = [taskState EXCEPT ![i] = "running"]
    /\ taskBatch' = [taskBatch EXCEPT ![i] = batch]
    /\ upload_status' = [upload_status EXCEPT ![i] = "processing"]
    /\ UNCHANGED <<use_async, batch, taskRetries>>
    /\ UNCHANGED imageVars
    /\ UNCHANGED storeVars
    /\ UNCHANGED <<totalVars, authVars>>

\* process_image_with_yolo, detection succeeded: the image instance is saved
\* as completed and the batch instance loaded at the start is updated and
\* saved over the row.  The completion message is still to be published.
TaskSucceed(i) ==
    /\ taskState[i] = "running"
    /\ taskBatch[i].processed_files < MaxProcessedFiles
    /\ upload_status' = [upload_status EXCEPT ![i] = "completed"]
    /\ batch' = BatchAfterSuccess(taskBatch[i])
    /\ taskState' = [taskState EXCEPT ![i] = "completing"]
    /\ taskBatch' = [taskBatch EXCEPT ![i] = NoBatch]
    /\ UNCHANGED <<use_async, taskRetries>>
    /\ UNCHANGED imageVars
    /\ UNCHANGED storeVars
    /\ UNCHANGED <<totalVars, authVars>>

\* process_image_with_yolo, the completion message was published: the task
\* returns.
TaskPublished(i) ==
    /\ taskState[i] = "completing"
    /\ taskState' = [taskState EXCEPT ![i] = "none"]
    /\ taskRetries' = [taskRetries EXCEPT ![i] = 0]
    /\ UNCHANGED <<use_async, batch, upload_status, taskBatch>>
    /\ UNCHANGED imageVars
    /\ UNCHANGED storeVars
    /\ UNCHANGED <<totalVars, authVars>>

\* if self.request.retries < self.max_retries: raise self.retry(...)
ShouldRetry_AtBound(retries) == retries <= max_retries

ShouldRetry(retries) == retries < max_retries

\* process_image_with_yolo, `except Exception`: the image is reloaded and
\* saved as failed, its batch reloaded and failed_files += 1; then the task is
\* retried while self.request.retries < max_retries.
TaskExcept(i) ==
    /\ batch.failed_files < MaxFailedFiles
    /\ upload_status' = [upload_status EXCEPT ![i] = "failed"]
    /\ batch' = BatchAfterFailure(batch)
    /\ taskBatch' = [taskBatch EXCEPT ![i] = NoBatch]
    /\ IF ShouldRetry(taskRetries[i])
       THEN /\ taskState' = [taskState EXCEPT ![i] = "queued"]
            /\ taskRetries' = [taskRetries EXCEPT ![i] = taskRetries[i] + 1]
       ELSE /\ taskState' = [taskState EXCEPT ![i] = "none"]
            /\ taskRetries' = [taskRetries EXCEPT ![i] = 0]
    /\ UNCHANGED use_async
    /\ UNCHANGED imageVars
    /\ UNCHANGED storeVars
    /\ UNCHANGED <<totalVars, authVars>>

\* process_image_with_yolo, an exception before the image is saved as
\* completed (the progress message could not be published, or detection
\* raised): the except path runs.
TaskFail(i) ==
    /\ taskState[i] = "running"
    /\ TaskExcept(i)

\* process_image_with_yolo, the completion message could not be published:
\* group_send raises inside the task's try block, after the image and the
\* batch were saved, and the except path runs.
TaskPublishFail(i) ==
    /\ taskState[i] = "completing"
    /\ TaskExcept(i)

\* ------------------------------------------------------ batch assignments
\* One BatchAssignment; Annotation.batch_assignment is a required ForeignKey,
\* so every annotation row belongs to it.

\* BatchAssignment.update_progress: images_completed becomes the number of
\* the assignment's annotations in status SUBMITTED; images_total is read,
\* never written.
BatchAssignment_update_progress ==
    /\ images_completed' =
           Cardinality({a \in DOMAIN annotations : annotations[a].status = "SUBMITTED"})
    /\ UNCHANGED <<total_images, images_total>>
    /\ UNCHANGED imageVars
    /\ UNCHANGED storeVars
    /\ UNCHANGED uploadVars
    /\ UNCHANGED authVars

\* ------------------------------------------------------------------- users
\* CustomUser rows, identified by username.  A request that needs
\* IsAuthenticated is made by a user holding a token.  email "" and
\* password "" stand for a value the request did not carry (create_user
\* stores an empty email and an unusable password); reset_token 0 is NULL.

Role == {"ADMIN", "ANNOTATOR", "VERIFIER"}
Emails == {"a@x", "b@x"}
Passwords == {"pw1", "pw2"}

NoUser == [registered |-> FALSE, is_approved |-> FALSE, role |-> "ANNOTATOR",
           email |-> "", password |-> "", reset_token |-> 0]

NoLogin == [user |-> 0, status |-> 0, tokens |-> FALSE]

\* A response without a user listing.
Resp(status) ==
    [status |-> status, users |-> <<>>, total_pages |-> 0, total_users |-> 0]

\* authenticate(): the user exists, has a usable password and the password
\* given matches.
authenticate(u, password_ok) ==
    users[u].registered /\ users[u].password # "" /\ password_ok

\* A login that does not look at the approval flag.
LoginApproved_Always(u) == TRUE

\* login_user: `if user.is_approved`
LoginApproved(u) == users[u].is_approved

\* register_user: 400 when the username exists; else create_user with what
\* the request carries, role included, and is_approved False.  u = 0 is a
\* request without username: create_user raises ValueError, which the view
\* does not catch.
register_user(u, role, email, password) ==
    /\ IF u = 0
       THEN /\ response' = Resp(500)
            /\ users' = users
       ELSE IF users[u].registered
       THEN /\ response' = Resp(400)
            /\ users' = users
       ELSE /\ response' = Resp(200)
            /\ users' = [users EXCEPT ![u] =
                   [registered |-> TRUE, is_approved |-> FALSE, role |-> role,
                    email |-> email, password |-> password, reset_token |-> 0]]
    /\ UNCHANGED <<tokens, loginResult, next_token>>
    /\ UNCHANGED imageVars
    /\ UNCHANGED storeVars
    /\ UNCHANGED uploadVars
    /\ UNCHANGED totalVars

\* login_user: 401 when authenticate() fails, 403 'Account pending approval'
\* for an unapproved user, else 200 with an access and a refresh token.
login_user(u, password_ok) ==
    /\ IF ~authenticate(u, password_ok)
       THEN /\ loginResult' = [user |-> u, status |-> 401, tokens |-> FALSE]
            /\ tokens' = tokens
       ELSE IF LoginApproved(u)
       THEN /\ loginResult' = [user |-> u, status |-> 200, tokens |-> TRUE]
            /\ tokens' = tokens \cup {u}
       ELSE /\ loginResult' = [user |-> u, status |-> 403, tokens |-> FALSE]
            /\ tokens' = tokens
    /\ UNCHANGED <<users, response, next_token>>
    /\ UNCHANGED imageVars
    /\ UNCHANGED storeVars
    /\ UNCHANGED uploadVars
    /\ UNCHANGED totalVars

\* token/ (TokenObtainPairView): a token pair for any user who
\* authenticates; the view does not know is_approved.
token_obtain_pair(u) ==
    /\ authenticate(u, TRUE)
    /\ tokens' = tokens \cup {u}
    /\ UNCHANGED <<users, loginResult, response, next_token>>
    /\ UNCHANGED imageVars
    /\ UNCHANGED storeVars
    /\ UNCHANGED uploadVars
    /\ UNCHANGED totalVars

\* A view that leaves the admin test out.
IsAdminRole_Anyone(by) == TRUE

\* `if not request.user.role == CustomUser.Role.ADMIN: return 403`
IsAdminRole(by) == users[by].role = "ADMIN"

\* What an admin view leaves alone, whatever it answers.
AdminViewFrame ==
    /\ UNCHANGED <<loginResult, next_token>>
    /\ UNCHANGED imageVars
    /\ UNCHANGED storeVars
    /\ UNCHANGED uploadVars
    /\ UNCHANGED totalVars

\* approve_user: 403 for a requester who is not ADMIN, 404 for an unknown
\* user, else is_approved = True.
approve_user(by, u) ==
    /\ by \in tokens
    /\ IF ~IsAdminRole(by)
       THEN response' = Resp(403) /\ users' = users
       ELSE IF ~users[u].registered
       THEN response' = Resp(404) /\ users' = users
       ELSE /\ response' = Resp(200)
            /\ users' = [users EXCEPT ![u].is_approved = TRUE]
    /\ UNCHANGED tokens
    /\ AdminViewFrame

\* update_user_role: 400 for a role that is not one of the choices.
update_user_role(by, u, role) ==
    /\ by \in tokens
    /\ IF ~IsAdminRole(by)
       THEN response' = Resp(403) /\ users' = users
       ELSE IF role \notin Role
       THEN response' = Resp(400) /\ users' = users
       ELSE IF ~users[u].registered
       THEN response' = Resp(404) /\ users' = users
       ELSE /\ response' = Resp(200)
            /\ users' = [users EXCEPT ![u].role = role]
    /\ UNCHANGED tokens
    /\ AdminViewFrame

\* A rejection that keeps the row and clears the flag.
RowAfterReject_Kept(row) == [row EXCEPT !.is_approved = FALSE]

\* reject_user: user.delete()
RowAfterReject(row) == NoUser

\* reject_user: the row of another user is deleted; a token of a deleted
\* user no longer authenticates.
reject_user(by, u) ==
    /\ by \in tokens
    /\ IF ~IsAdminRole(by)
       THEN response' = Resp(403) /\ users' = users /\ tokens' = tokens
       ELSE IF ~users[u].registered
       THEN response' = Resp(404) /\ users' = users /\ tokens' = tokens
       ELSE IF u = by
       THEN response' = Resp(400) /\ users' = users /\ tokens' = tokens
       ELSE /\ response' = Resp(200)
            /\ users' = [users EXCEPT ![u] = RowAfterReject(users[u])]
            /\ tokens' = IF users'[u].registered THEN tokens ELSE tokens \ {u}
    /\ AdminViewFrame

\* delete_user: the same, on DELETE.
delete_user(by, u) ==
    /\ by \in tokens
    /\ IF ~IsAdminRole(by)
       THEN response' = Resp(403) /\ users' = users /\ tokens' = tokens
       ELSE IF ~users[u].registered
       THEN response' = Resp(404) /\ users' = users /\ tokens' = tokens
       ELSE IF u = by
       THEN response' = Resp(400) /\ users' = users /\ tokens' = tokens
       ELSE /\ response' = Resp(200)
            /\ users' = [users EXCEPT ![u] = NoUser]
            /\ tokens' = tokens \ {u}
    /\ AdminViewFrame

\* pause_user: toggles is_approved of another user.
pause_user(by, u) ==
    /\ by \in tokens
    /\ IF ~IsAdminRole(by)
       THEN response' = Resp(403) /\ users' = users
       ELSE IF ~users[u].registered
       THEN response' = Resp(404) /\ users' = users
       ELSE IF u = by
       THEN response' = Resp(400) /\ users' = users
       ELSE /\ response' = Resp(200)
            /\ users' = [users EXCEPT ![u].is_approved = ~users[u].is_approved]
    /\ UNCHANGED tokens
    /\ AdminViewFrame

\* The rows of a set of users in listing order (by id).
RECURSIVE ListOf(_)
ListOf(S) ==
    IF S = {} THEN <<>>
    ELSE LET m == CHOOSE x \in S : \A y \in S : x <= y
         IN <<m>> \o ListOf(S \ {m})

\* CustomUser.objects.all(), or .filter(is_approved=...) when the query
\* carries is_approved ("none" when it does not).
UsersMatching(approved_filter) ==
    {u \in DOMAIN users :
        /\ users[u].registered
        /\ \/ approved_filter = "none"
           \/ users[u].is_approved = (approved_filter = "true")}

\* Python's // on integers (floor), b # 0.
FloorDiv(a, b) == IF b > 0 THEN a \div b ELSE (0 - a) \div (0 - b)

\* users[start:end] on a QuerySet: a negative bound raises; the slice is
\* empty when start reaches end or the end of the listing.
SliceRaises(start, end) == start < 0 \/ end < 0

Slice(list, start, end) ==
    LET hi == IF end < Len(list) THEN end ELSE Len(list)
    IN IF start >= hi THEN <<>> ELSE SubSeq(list, start + 1, hi)

\* get_all_users: every row.
get_all_users(by) ==
    /\ by \in tokens
    /\ response' =
         IF ~IsAdminRole(by) THEN Resp(403)
         ELSE [status |-> 200, users |-> ListOf(UsersMatching("none")),
               total_pages |-> 0, total_users |-> 0]
    /\ UNCHANGED <<users, tokens>>
    /\ AdminViewFrame

\* get_pending_users: the rows with is_approved False.
get_pending_users(by) ==
    /\ by \in tokens
    /\ response' =
         IF ~IsAdminRole(by) THEN Resp(403)
         ELSE [status |-> 200, users |-> ListOf(UsersMatching("false")),
               total_pages |-> 0, total_users |-> 0]
    /\ UNCHANGED <<users, tokens>>
    /\ AdminViewFrame

\* get_users: one page of the listing; any exception (division by zero for
\* per_page = 0, a negative slice bound) is answered with 400.
get_users(by, page, per_page, approved_filter) ==
    /\ by \in tokens
    /\ response' =
         IF ~IsAdminRole(by) THEN Resp(403)
         ELSE IF per_page = 0 THEN Resp(400)
         ELSE LET list == ListOf(UsersMatching(approved_filter))
                  total_users == Len(list)
                  total_pages == FloorDiv(total_users + per_page - 1, per_page)
                  start == (page - 1) * per_page
                  end == start + per_page
              IN IF SliceRaises(start, end) THEN Resp(400)
                 ELSE [status |-> 200, users |-> Slice(list, start, end),
                       total_pages |-> total_pages, total_users |-> total_users]
    /\ UNCHANGED <<users, tokens>>
    /\ AdminViewFrame

\* The users whose email is the one asked for.
UsersWithEmail(email) ==
    {u \in DOMAIN users : users[u].registered /\ users[u].email = email}

\* The users whose password_reset_token is the one presented.
UsersWithToken(token) ==
    {u \in DOMAIN users : users[u].registered /\ users[u].reset_token = token}

\* request_password_reset: 400 without email; objects.get(email=email)
\* finds one row (a new token is stored and mailed), none (DoesNotExist, the
\* same 200 message) or several (MultipleObjectsReturned, caught by the
\* general handler: 500).  A mail that cannot be sent is a 500 too, after
\* the token was saved.
request_password_reset(email, mail_ok) ==
    /\ next_token < MaxTokens
    /\ IF email = ""
       THEN response' = Resp(400) /\ UNCHANGED <<users, next_token>>
       ELSE IF UsersWithEmail(email) = {}
       THEN response' = Resp(200) /\ UNCHANGED <<users, next_token>>
       ELSE IF Cardinality(UsersWithEmail(email)) > 1
       THEN response' = Resp(500) /\ UNCHANGED <<users, next_token>>
       ELSE LET u == CHOOSE x \in UsersWithEmail(email) : TRUE
            IN /\ next_token' = next_token + 1
               /\ users' = [users EXCEPT ![u].reset_token = next_token + 1]
               /\ response' = IF mail_ok THEN Resp(200) ELSE Resp(500)
    /\ UNCHANGED <<tokens, loginResult>>
    /\ UNCHANGED imageVars
    /\ UNCHANGED storeVars
    /\ UNCHANGED uploadVars
    /\ UNCHANGED totalVars

\* A reset that leaves the token in place.
TokenAfterReset_Kept(token) == token

\* reset_password: user.password_reset_token = None
TokenAfterReset(token) == 0

\* reset_password: 400 without token or password (token 0, password "");
\* objects.get(password_reset_token=token) must find the row; a password
\* that validate_password refuses is a 400; else the password is set and the
\* token cleared.
reset_password(token, new_password, valid) ==
    /\ IF token = 0 \/ new_password = ""
       THEN response' = Resp(400) /\ users' = users
       ELSE IF UsersWithToken(token) = {}
       THEN response' = Resp(400) /\ users' = users
       ELSE IF ~valid
       THEN response' = Resp(400) /\ users' = users
       ELSE LET u == CHOOSE x \in UsersWithToken(token) : TRUE
            IN /\ users' = [users EXCEPT ![u].password = new_password,
                                         ![u].reset_token = TokenAfterReset(token)]
               /\ response' = Resp(200)
    /\ UNCHANGED <<tokens, loginResult, next_token>>
    /\ UNCHANGED imageVars
    /\ UNCHANGED storeVars
    /\ UNCHANGED uploadVars
    /\ UNCHANGED totalVars

\* -------------------------------------------------------------------- Init
\* The workflow tables: one ImageBatch with its counters at their defaults,
\* no image, annotation or verification yet.
InitWorkflow ==
    /\ imgStatus = [i \in ImageIds |-> NoImage]
    /\ assigned_count = 0
    /\ completed_count = 0
    /\ approved_count = 0
    /\ rejected_count = 0
    /\ upPc = "idle"
    /\ upSelf = NoInstance
    /\ annotations = <<>>
    /\ verifications = <<>>
    /\ verifyResult = [annotation |-> 0, verifier |-> "none", result |-> "none"]

\* The legacy pipeline right after create_upload_batch(total_files = n).
InitUploadWith(async, n) ==
    /\ use_async = async
    /\ batch = [total_files |-> n, uploaded_files |-> 0, processed_files |-> 0,
                failed_files |-> 0, status |-> "pending"]
    /\ upload_status = [i \in UploadIds |-> "none"]
    /\ taskState = [i \in UploadIds |-> "none"]
    /\ taskRetries = [i \in UploadIds |-> 0]
    /\ taskBatch = [i \in UploadIds |-> NoBatch]

\* The ImageBatch was created with total_images = n and the BatchAssignment
\* with images_total = m.
InitTotalsWith(n, m) ==
    /\ total_images = n
    /\ images_total = m
    /\ images_completed = 0

\* One approved administrator; nobody else is registered or logged in.
InitUsers ==
    /\ users = [u \in UserIds |->
                  IF u = 1
                  THEN [registered |-> TRUE, is_approved |-> TRUE, role |-> "ADMIN",
                        email |-> "a@x", password |-> "pw1", reset_token |-> 0]
                  ELSE NoUser]
    /\ tokens = {}
    /\ loginResult = NoLogin
    /\ response = Resp(0)
    /\ next_token = 0

InitUpload == \E async \in BOOLEAN, n \in 1..MaxTotalFiles : InitUploadWith(async, n)

Init == InitWorkflow /\ InitUpload /\ InitTotalsWith(1, 1) /\ InitUsers

\* The workflow tables next to one idle legacy batch: what the workflow
\* specifications start from.
InitStore ==
    InitWorkflow /\ InitUploadWith(FALSE, 1) /\ InitTotalsWith(1, 1) /\ InitUsers

\* As InitStore, for any declared totals.
InitTotals ==
    /\ InitWorkflow
    /\ InitUploadWith(FALSE, 1)
    /\ \E n, m \in 1..MaxTotalImages : InitTotalsWith(n, m)
    /\ InitUsers

\* A user table of up to MaxListedUsers rows, approved or pending, with the
\* administrator (user 1) logged in.
InitListing ==
    /\ InitWorkflow
    /\ InitUploadWith(FALSE, 1)
    /\ InitTotalsWith(1, 1)
    /\ users \in [1..MaxListedUsers ->
          {NoUser,
           [registered |-> TRUE, is_approved |-> TRUE, role |-> "ANNOTATOR",
            email |-> "b@x", password |-> "pw1", reset_token |-> 0],
           [registered |-> TRUE, is_approved |-> FALSE, role |-> "ANNOTATOR",
            email |-> "b@x", password |-> "pw1", reset_token |-> 0],
           [registered |-> TRUE, is_approved |-> TRUE, role |-> "ADMIN",
            email |-> "a@x", password |-> "pw1", reset_token |-> 0]}]
    /\ users[1].role = "ADMIN"
    /\ tokens = {1}
    /\ loginResult = NoLogin
    /\ response = Resp(0)
    /\ next_token = 0

NextImages ==
    \/ \E i \in ImageIds : CreateImage(i)
    \/ \E i \in ImageIds, s \in IMAGE_STATUS : AdminChangeImage(i, s)
    \/ UpdateProgressAssigned
    \/ UpdateProgressCompleted
    \/ UpdateProgressApproved
    \/ UpdateProgressRejected
    \/ UpdateProgressSave

SpecImages == InitStore /\ [][NextImages]_vars

\* The verification table and what it refers to.
NextVerification ==
    \/ \E i \in StoreImageIds : CreateImage(i)
    \/ \E i \in StoreImageIds, s \in IMAGE_STATUS : AdminChangeImage(i, s)
    \/ \E i \in StoreImageIds, st \in {"DRAFT", "SUBMITTED"} :
          CreateAnnotation(i, st, 1, FALSE, 0)
    \/ \E a \in 1..MaxAnnotations, v \in Verifiers,
          d \in VERIFICATION_DECISIONS, c \in BOOLEAN :
          CreateVerification(a, v, d, c)

SpecVerification ==
    InitStore /\ [][NextVerification]_vars

\* The annotation table with its versioning columns.
NextRevision ==
    \/ \E i \in ImageIds : CreateImage(i)
    \/ \E i \in ImageIds, ver \in 1..MaxVersion, rev \in BOOLEAN,
          orig \in 0..MaxAnnotations :
          CreateAnnotation(i, "DRAFT", ver, rev, orig)
    \/ \E a \in 1..MaxAnnotations, st \in ANNOTATION_STATUS :
          SaveAnnotationStatus(a, st)
    \/ BatchAssignment_update_progress

SpecRevision == InitTotals /\ [][NextRevision]_vars

\* Registration, login and the administrator's views.
NextAuth ==
    \/ \E u \in UserIds, role \in Role : register_user(u, role, "b@x", "pw1")
    \/ \E u \in UserIds, password_ok \in BOOLEAN : login_user(u, password_ok)
    \/ \E u \in UserIds : token_obtain_pair(u)
    \/ \E by, u \in UserIds : approve_user(by, u)
    \/ \E by, u \in UserIds : pause_user(by, u)
    \/ \E by, u \in UserIds : reject_user(by, u)
    \/ \E by, u \in UserIds : delete_user(by, u)
    \/ \E by, u \in UserIds, role \in Role \cup {"GUEST"} :
            update_user_role(by, u, role)
    \/ \E by \in UserIds : get_all_users(by)
    \/ \E by \in UserIds : get_pending_users(by)
    \/ \E by \in UserIds : get_users(by, 1, MaxUsers, "none")

SpecAuth == InitStore /\ [][NextAuth]_vars

\* Registration and password reset, with every field a request may lack.
NextReset ==
    \/ \E u \in 0..MaxUsers, email \in Emails \cup {""},
          password \in Passwords \cup {""} :
            register_user(u, "ANNOTATOR", email, password)
    \/ \E email \in Emails \cup {""}, mail_ok \in BOOLEAN :
            request_password_reset(email, mail_ok)
    \/ \E token \in 0..MaxTokens, new_password \in Passwords \cup {""},
          valid \in BOOLEAN :
            reset_password(token, new_password, valid)

SpecReset == InitStore /\ [][NextReset]_vars

\* The listing views over any user table, asked for any page.
NextListing ==
    \/ \E by \in tokens, page \in -1..MaxPage, per_page \in -1..MaxPerPage,
          approved_filter \in {"none", "true", "false"} :
            get_users(by, page, per_page, approved_filter)
    \/ \E by \in tokens : get_all_users(by)
    \/ \E by \in tokens : get_pending_users(by)

SpecListing == InitListing /\ [][NextListing]_vars

\* update_progress runs with no image change during a run: images are
\* created and changed only between two runs.
NextProgress ==
    \/ upPc = "idle" /\ \E i \in ImageIds : CreateImage(i)
    \/ upPc = "idle" /\ \E i \in ImageIds, s \in IMAGE_STATUS : AdminChangeImage(i, s)
    \/ UpdateProgressAssigned
    \/ UpdateProgressCompleted
    \/ UpdateProgressApproved
    \/ UpdateProgressRejected
    \/ UpdateProgressSave

SpecProgress == InitTotals /\ [][NextProgress]_vars

\* ------------------------------------------------------------------ claims

\* C1: for every batch, in every reachable state, the stored counters
\* satisfy completed_count = approved_count + rejected_count.
C1_CompletedIsApprovedPlusRejected ==
    completed_count = approved_count + rejected_count

\* The transition table of the image workflow, with DETECTED stored as
\* YOLO_PROCESSED.
ListedTransitions ==
    {<<"UPLOADED", "YOLO_PROCESSED">>, <<"YOLO_PROCESSED", "ASSIGNED">>,
     <<"ASSIGNED", "IN_PROGRESS">>, <<"IN_PROGRESS", "ANNOTATED">>,
     <<"ANNOTATED", "SUBMITTED">>, <<"SUBMITTED", "UNDER_REVIEW">>,
     <<"UNDER_REVIEW", "APPROVED">>, <<"UNDER_REVIEW", "REJECTED">>,
     <<"UNDER_REVIEW", "REQUIRES_REVISION">>,
     <<"REQUIRES_REVISION", "ASSIGNED">>}

\* C2: an existing image's status only ever changes along a listed
\* transition; no step makes any other change (in particular none out of
\* APPROVED or REJECTED).
C2_OnlyListedTransitions ==
    [][\A i \in ImageIds :
          (imgStatus[i] # NoImage /\ imgStatus'[i] # imgStatus[i])
              => <<imgStatus[i], imgStatus'[i]>> \in ListedTransitions]_vars

RowsFor(a) == {k \in DOMAIN verifications : verifications[k].annotation = a}

DecidedImageStatus(d, reannotate) ==
    IF is_approved(d) THEN "APPROVED"
    ELSE IF needs_revision(d) THEN "REQUIRES_REVISION"
    ELSE IF reannotate THEN "REQUIRES_REVISION" ELSE "REJECTED"

DecidedAnnotationOk(d, status) ==
    /\ is_approved(d) => status = "APPROVED"
    /\ needs_revision(d) => status = "REVISION_REQUESTED"

\* C4: when a second verification call on an annotation loses (is refused
\* because the other call's verification exists), exactly one verification
\* is stored for the annotation and the image's status is the one the
\* stored (winning) decision produces.
C4_LoserLeavesWinnersStatus ==
    [][\A a \in DOMAIN annotations :
          (/\ verifyResult' # verifyResult
           /\ verifyResult'.annotation = a
           /\ verifyResult'.result = "IntegrityError")
          => (/\ Cardinality({k \in DOMAIN verifications' :
                                verifications'[k].annotation = a}) = 1
              /\ \A k \in DOMAIN verifications' :
                    verifications'[k].annotation = a =>
                        imgStatus'[annotations'[a].image] =
                            DecidedImageStatus(verifications'[k].decision,
                                               verifications'[k].can_be_reannotated))]_vars

\* C5: the step that stores a verification leaves the annotation and its
\* image in the statuses its decision determines.
C5_DecisionSetsStatuses ==
    [][Len(verifications') = Len(verifications) + 1 =>
          LET v == verifications'[Len(verifications')]
          IN /\ imgStatus'[annotations'[v.annotation].image] =
                    DecidedImageStatus(v.decision, v.can_be_reannotated)
             /\ DecidedAnnotationOk(v.decision,
                                    annotations'[v.annotation].status)]_vars

\* An annotation still being worked on.
ActiveAnnotations(i) ==
    {a \in DOMAIN annotations :
        annotations[a].image = i /\ annotations[a].status \in {"DRAFT", "COMPLETED"}}

\* C6: at any time each image has at most one active annotation.
C6_OneActiveAnnotationPerImage ==
    \A i \in ImageIds : Cardinality(ActiveAnnotations(i)) <= 1

EarlierOnImage(a) ==
    {b \in DOMAIN annotations : b < a /\ annotations[b].image = annotations[a].image}

MaxVersionOf(S) ==
    IF S = {} THEN 0
    ELSE CHOOSE n \in {annotations[b].version : b \in S} :
            \A b \in S : annotations[b].version <= n

\* C7: every annotation's version is the prior maximum version for its image
\* plus one, and every later annotation of an image (a revision) refers
\* through original_annotation to the image's version-1 root.
C7_RevisionsPointToRoot ==
    \A a \in DOMAIN annotations :
        /\ annotations[a].version = MaxVersionOf(EarlierOnImage(a)) + 1
        /\ EarlierOnImage(a) # {} =>
              /\ annotations[a].original_annotation \in EarlierOnImage(a)
              /\ annotations[annotations[a].original_annotation].version = 1
              /\ annotations[annotations[a].original_annotation].original_annotation = 0

\* C8: an image enters ASSIGNED only from a status in which
\* can_be_assigned holds (YOLO_PROCESSED or REQUIRES_REVISION).
C8_AssignedOnlyFromAssignable ==
    [][\A i \in ImageIds :
          (imgStatus[i] # NoImage /\ imgStatus[i] # "ASSIGNED"
              /\ imgStatus'[i] = "ASSIGNED")
          => can_be_assigned(imgStatus[i])]_vars

ExistingUploads == {i \in UploadIds : upload_status[i] # "none"}

\* C9: the batch becomes completed only when none of its images is still
\* uploaded or processing, and a step that brings the last of the batch's
\* total_files images to completed or failed leaves the batch completed.
C9_CompletedExactlyWhenAllTerminal ==
    [][/\ (batch.status # "completed" /\ batch'.status = "completed")
            => \A i \in UploadIds :
                   upload_status'[i] \notin {"uploaded", "processing"}
       /\ (/\ \E i \in UploadIds :
                 /\ upload_status[i] \notin {"completed", "failed"}
                 /\ upload_status'[i] \in {"completed", "failed"}
           /\ Cardinality(ExistingUploads) = batch.total_files
           /\ \A i \in ExistingUploads :
                 upload_status'[i] \in {"completed", "failed"})
            => batch'.status = "completed"]_vars

\* C10: once the batch is cancelled, no step changes its status and no
\* step moves one of its cancelled images to another status.
C10_CancelIsIrreversible ==
    [][batch.status = "cancelled" =>
          /\ batch'.status = "cancelled"
          /\ \A i \in UploadIds :
                upload_status[i] = "cancelled" => upload_status'[i] = "cancelled"]_vars

\* A step of one of the synchronous views that processes image i: the view
\* first saves the image as uploaded, then runs detection on it.
ExplicitRetryOf(i) ==
    \/ \E ok \in BOOLEAN : process_single_image_sync(i, ok)
    \/ i \in Processable /\ \E oks \in [UploadIds -> BOOLEAN] :
                                process_batch_with_yolo_sync(oks)
    \/ i \in FailedImages /\ \E oks \in [UploadIds -> BOOLEAN] :
                                retry_failed_images_sync(oks)

\* C11: a failed image leaves 'failed' only through an explicit retry
\* operation, which first resets it to uploaded; no other step (the task's
\* automatic retry included) moves a failed image to processing or
\* completed.
C11_FailedLeavesOnlyByExplicitRetry ==
    [][\A i \in UploadIds :
          (upload_status[i] = "failed" /\ upload_status'[i] # "failed")
          => (upload_status'[i] = "uploaded" \/ ExplicitRetryOf(i))]_vars

\* C12: an image whose detection fails again on an automatic retry is still
\* counted once: the failing retry attempt leaves failed_files as it was.
C12_FailedCountedOnce ==
    [][\A i \in UploadIds :
          (/\ taskState[i] = "running"
           /\ taskRetries[i] > 0
           /\ taskState'[i] \in {"queued", "none"})
          => batch'.failed_files = batch.failed_files]_vars

\* C13: a task is retried at most max_retries times: its retry count never
\* exceeds max_retries, every re-queue raises the count by one, and a
\* failure at the bound schedules nothing and leaves the image failed.
C13_RetriesBounded ==
    /\ [](\A i \in UploadIds : taskRetries[i] \in 0..max_retries)
    /\ [][\A i \in UploadIds :
            /\ (taskState[i] \in {"running", "completing"} /\ taskState'[i] = "queued")
                  => taskRetries'[i] = taskRetries[i] + 1
            /\ (/\ taskState[i] = "running"
                /\ taskRetries[i] = max_retries
                /\ taskState'[i] \notin {"running", "completing"})
                  => (taskState'[i] = "none" /\ upload_status'[i] = "failed")]_vars

\* C13 witness: the batch's only image has failed on the first attempt and on
\* each of the max_retries retries, and no task is left for it.
C13_Witness ==
    /\ use_async
    /\ ExistingUploads = {1}
    /\ upload_status[1] = "failed"
    /\ taskState[1] = "none"
    /\ batch.failed_files = max_retries + 1

C15_PublishFailureKeepsCompleted ==
    [][\A i \in UploadIds :
          (taskState[i] = "completing" /\ taskState'[i] # "completing")
          => (/\ upload_status'[i] = "completed"
              /\ batch'.failed_files = batch.failed_files)]_vars

\* C16: a run of update_progress during which no image changes stores
\* exactly the counts of the current image statuses, whatever the counters
\* held before; a second such run therefore stores the same values again.
C16_UpdateProgressIsPure ==
    [][(upPc = "save" /\ upPc' = "idle") =>
          /\ assigned_count' =
                CountStatus({"ASSIGNED", "IN_PROGRESS", "ANNOTATED", "SUBMITTED"})
          /\ completed_count' = CountStatus({"APPROVED", "REJECTED"})
          /\ approved_count' = CountStatus({"APPROVED"})
          /\ rejected_count' = CountStatus({"REJECTED"})
          /\ (/\ assigned_count =
                    CountStatus({"ASSIGNED", "IN_PROGRESS", "ANNOTATED", "SUBMITTED"})
              /\ completed_count = CountStatus({"APPROVED", "REJECTED"})
              /\ approved_count = CountStatus({"APPROVED"})
              /\ rejected_count = CountStatus({"REJECTED"}))
             => UNCHANGED <<assigned_count, completed_count, approved_count,
                            rejected_count>>]_vars

\* C16 witness: update_progress has run over one assigned and one rejected
\* image and the stored counters are their counts.
C16_Witness ==
    /\ upPc = "idle"
    /\ \E i, j \in ImageIds : imgStatus[i] = "ASSIGNED" /\ imgStatus[j] = "REJECTED"
    /\ assigned_count = 1
    /\ completed_count = 1
    /\ approved_count = 0
    /\ rejected_count = 1

\* C17: whenever no image is being processed, processed_files is the number
\* of completed images and failed_files the number of failed images.
C17_CountersDeriveFromImages ==
    (\A i \in UploadIds : upload_status[i] # "processing")
    => /\ batch.processed_files =
              Cardinality({i \in UploadIds : upload_status[i] = "completed"})
       /\ batch.failed_files =
              Cardinality({i \in UploadIds : upload_status[i] = "failed"})

\* C18: images_completed never exceeds images_total.
C18_CompletedAtMostTotal == images_completed <= images_total

\* C19: assigned_count never exceeds total_images.
C19_AssignedAtMostTotal == assigned_count <= total_images

NextUpload ==
    \/ \E i \in UploadIds : upload_image(i)
    \/ cancel_batch
    \/ \E i \in UploadIds, ok \in BOOLEAN : process_single_image_sync(i, ok)
    \/ \E i \in UploadIds : process_single_image_async(i)
    \/ \E oks \in [UploadIds -> BOOLEAN] : process_batch_with_yolo_sync(oks)
    \/ process_batch_with_yolo_async
    \/ \E oks \in [UploadIds -> BOOLEAN] : retry_failed_images_sync(oks)
    \/ retry_failed_images_async
    \/ \E i \in UploadIds : TaskStart(i)
    \/ \E i \in UploadIds : TaskSucceed(i)
    \/ \E i \in UploadIds : TaskFail(i)
    \/ \E i \in UploadIds : TaskPublished(i)
    \/ \E i \in UploadIds : TaskPublishFail(i)

SpecUpload == Init /\ [][NextUpload]_vars

\* C21: each of the admin-only views, requested by a token holder whose role
\* is not ADMIN, answers 403 and leaves every user row as it was.
C21_NonAdminGets403 ==
    [][\A by \in UserIds :
         users[by].role # "ADMIN" =>
           /\ \A u \in UserIds :
                (\/ approve_user(by, u)
                 \/ reject_user(by, u)
                 \/ delete_user(by, u)
                 \/ pause_user(by, u)
                 \/ \E role \in Role \cup {"GUEST"} :
                        update_user_role(by, u, role))
                => (response'.status = 403 /\ users' = users)
           /\ (\/ get_all_users(by)
               \/ get_pending_users(by)
               \/ get_users(by, 1, MaxUsers, "none"))
              => (response'.status = 403 /\ users' = users)]_vars

\* C21 witness: a registered user who is not ADMIN holds a token and has
\* just been answered 403, next to another registered user.
C21_Witness ==
    \E by \in tokens :
        /\ users[by].registered
        /\ users[by].role # "ADMIN"
        /\ response = Resp(403)
        /\ \E u \in UserIds \ {by} : users[u].registered

\* C22: a successful reject_user keeps the row of the rejected user, with
\* is_approved false.
C22_RejectIsSoftDelete ==
    [][\A by, u \in UserIds :
         (reject_user(by, u) /\ response'.status = 200) =>
            (users'[u].registered /\ ~users'[u].is_approved)]_vars

\* C23: reset_password changes a password only when the request carries a
\* token stored on a row and a valid password; then that row alone gets the
\* new password and loses the token, so that no row stores the token any
\* more; a call with a token that no row stores is answered 400; any call
\* not answered 200 leaves every row as it was.  A token once issued is never
\* issued again, so a token that was used stays unknown.
C23_ResetNeedsStoredToken ==
    [][/\ \A token \in 0..MaxTokens, new_password \in Passwords \cup {""},
            valid \in BOOLEAN :
            reset_password(token, new_password, valid) =>
              /\ response'.status \in {200, 400}
              /\ response'.status = 200 =>
                   /\ token # 0 /\ new_password # "" /\ valid
                   /\ \E u \in UsersWithToken(token) :
                        /\ users'[u] = [users[u] EXCEPT !.password = new_password,
                                                        !.reset_token = 0]
                        /\ \A v \in UserIds \ {u} : users'[v] = users[v]
                   /\ \A v \in UserIds : users'[v].reset_token # token
              /\ response'.status # 200 => users' = users
              /\ (token = 0 \/ UsersWithToken(token) = {}) => response'.status = 400
       /\ \A u \in UserIds :
            /\ users[u].reset_token <= next_token
            /\ users'[u].reset_token \in
                 {0, users[u].reset_token} \cup (next_token + 1)..MaxTokens]_vars

\* C23 witness: the administrator asked for a token and used it to set a
\* new password; the row no longer stores a token.
C23_Witness ==
    /\ users[1].password = "pw2"
    /\ users[1].reset_token = 0
    /\ next_token >= 1
    /\ response = Resp(200)

\* C24: request_password_reset with a non-empty email, the mail being
\* deliverable, is answered 200 whatever the user table holds.
C24_ResetRequestRevealsNothing ==
    [][\A email \in Emails :
         request_password_reset(email, TRUE) => response'.status = 200]_vars

\* C25: a registration without username, email or password, or with a
\* username that exists, is answered 400 and creates no user.
C25_InvalidRegistrationRejected ==
    [][\A u \in 0..MaxUsers, email \in Emails \cup {""},
          password \in Passwords \cup {""} :
         (/\ register_user(u, "ANNOTATOR", email, password)
          /\ (u = 0 \/ email = "" \/ password = "" \/ users[u].registered))
         => (response'.status = 400 /\ users' = users)]_vars

\* ceil(n / d) for d >= 1, by its definition.
CeilDiv(n, d) == CHOOSE k \in 0..n : k * d >= n /\ (k - 1) * d < n

\* The rows at positions (page-1)*per_page .. page*per_page - 1 (from 0) of
\* a listing, as far as the listing goes.
PageOf(list, page, per_page) ==
    LET first == (page - 1) * per_page
        last == IF page * per_page < Len(list) THEN page * per_page ELSE Len(list)
    IN IF last <= first THEN <<>>
       ELSE [j \in 1..(last - first) |-> list[first + j]]

\* C26: get_users asked by the administrator: for page >= 1 and
\* per_page >= 1 the answer carries total_pages = ceil(total / per_page) and
\* exactly the rows of that page, none beyond the last page; for page <= 0
\* or per_page = 0 the answer is 400.
C26_PaginationIsExact ==
    [][\A page \in -1..MaxPage, per_page \in -1..MaxPerPage,
          approved_filter \in {"none", "true", "false"} :
         get_users(1, page, per_page, approved_filter) =>
           LET list == ListOf(UsersMatching(approved_filter))
           IN /\ (page >= 1 /\ per_page >= 1) =>
                   /\ response'.status = 200
                   /\ response'.total_users = Len(list)
                   /\ response'.total_pages = CeilDiv(Len(list), per_page)
                   /\ response'.users = PageOf(list, page, per_page)
                   /\ page > response'.total_pages => response'.users = <<>>
              /\ (page <= 0 \/ per_page = 0) => response'.status = 400]_vars

\* C27: when a worker's processing of an image succeeds next to other
\* workers of the same batch, the stored processed_files grows by one and
\* failed_files keeps its value, and a sum that reaches total_files makes
\* the batch completed.
C27_NoLostCounterUpdate ==
    [][\A i \in UploadIds :
         TaskSucceed(i) =>
           /\ batch'.processed_files = batch.processed_files + 1
           /\ batch'.failed_files = batch.failed_files
           /\ (batch'.processed_files + batch'.failed_files = batch'.total_files)
                 => batch'.status = "completed"]_vars

\* C28: when the synchronous process_batch_with_yolo returns, the stored
\* counters hold what the per-image calls added (one processed_files per
\* image that succeeded, one failed_files per image that failed) and the
\* batch is completed.
C28_SyncBatchRunKeepsCounters ==
    [][\A oks \in [UploadIds -> BOOLEAN] :
         process_batch_with_yolo_sync(oks) =>
           /\ batch'.processed_files >=
                 batch.processed_files + Cardinality({i \in Processable : oks[i]})
           /\ batch'.failed_files >= Cardinality({i \in Processable : ~oks[i]})
           /\ batch'.status = "completed"]_vars

\* C29: the counters of the UploadBatch are never negative and their sum
\* never exceeds total_files.
C29_CountersWithinTotal ==
    /\ batch.processed_files >= 0
    /\ batch.failed_files >= 0
    /\ batch.processed_files + batch.failed_files <= batch.total_files

\* C30: an admin-only view answers 200 only to a requester whose role is
\* ADMIN and whose is_approved is set.
C30_AdminNeedsApproval ==
    [][\A by \in UserIds :
         (/\ \/ \E u \in UserIds :
                   \/ approve_user(by, u)
                   \/ reject_user(by, u)
                   \/ delete_user(by, u)
                   \/ pause_user(by, u)
                   \/ \E role \in Role : update_user_role(by, u, role)
             \/ get_all_users(by)
             \/ get_pending_users(by)
             \/ get_users(by, 1, MaxUsers, "none")
          /\ response'.status = 200)
         => (users[by].role = "ADMIN" /\ users[by].is_approved)]_vars

Next ==
    \/ NextImages
    \/ NextVerification
    \/ NextRevision
    \/ NextProgress
    \/ NextUpload
    \/ NextAuth
    \/ NextReset
    \/ NextListing

Spec == Init /\ [][Next]_vars
====
